---- MODULE Spec2Model ----
(***************************************************************************)
(* The signaling relay of server.js: the room table, the per-connection    *)
(* peerId / currentRoomId / readyState, and the handlers of the            *)
(* 'connection', 'message', 'close' and 'error' events.  A handler runs to *)
(* completion on Node's event loop, so each handler is one action.  The    *)
(* messages a handler sends are recorded, in order, in out.                *)
(***************************************************************************)
EXTENDS Integers, Sequences, FiniteSets, TLC

\* Bounds of the model.
MaxPeers == 3
MaxRooms == 2

\* peerIds are fresh uuids: the n-th connection gets the identity n.
PeerIds == 1..MaxPeers
\* roomIds are client-chosen truthy values.
RoomIds == 1..MaxRooms
\* null, undefined and every other falsy value of a field.
Null == 0

RelayTypes == {"offer", "answer", "ice-candidate"}

VARIABLES
    rooms,          \* rooms[r] = [has, clients]: rooms.has(r) and the keys of rooms.get(r) in insertion order
    currentRoomId,  \* currentRoomId[p] = ws.currentRoomId of connection p (Null when none)
    readyState,     \* readyState[p] = ws.readyState of connection p ("NONE" before it connects)
    errored,        \* the connections whose 'error' event has been emitted
    out,            \* the messages the running handler has sent, in order
    last,           \* the event the running handler handles ("idle" between handlers)
    crashed,        \* TRUE once an exception escaped a handler (the process has terminated)
    told,           \* told[m][j]: what the messages sent to m so far say of peer j (history)
    firstSent       \* firstSent[p]: type and peerId of the first message sent to p (history)

vars == <<rooms, currentRoomId, readyState, errored, out, last, crashed, told, firstSent>>

----------------------------------------------------------------------------
\* Insertion-ordered Map keys.

Contains(s, x) == \E i \in 1..Len(s) : s[i] = x

\* Faulty variant: delete empties the map (Map.prototype.clear).
MapDelete_All(s, x) == <<>>

\* Faulty variant: delete forgets the key.
MapDelete_Keeps(s, x) == s

\* Map.prototype.delete
MapDelete(s, x) == SelectSeq(s, LAMBDA y : y # x)

\* Map.prototype.set: an existing key keeps its position
MapSet(s, x) == IF Contains(s, x) THEN s ELSE Append(s, x)

NoRoom == [has |-> FALSE, clients |-> <<>>]

----------------------------------------------------------------------------
\* Messages.

\* A server-to-client message.  peerId is the peer the message names
\* (peerId, newPeerId, leavingPeerId or senderPeerId).
Msg(to, type, roomId, peerId, peers, message) ==
    [to |-> to, type |-> type, roomId |-> roomId, peerId |-> peerId,
     peers |-> peers, message |-> message]

ErrorMsg(to, message) == Msg(to, "error", Null, Null, <<>>, message)

\* The senderPeerId field a client puts in its own relay frame: none in an
\* offer, the first peer's id in an answer, the last peer's id in an
\* ice-candidate; so every sender has a frame that names another peer.
ClaimedSender(type) ==
    CASE type = "offer" -> Null
      [] type = "answer" -> 1
      [] OTHER -> MaxPeers

\* A client-to-server text frame: json says how JSON.parse fares on it;
\* senderPeerId is the value of a senderPeerId field the client put in the
\* frame itself (Null when it put none).
Data(json, type, roomId, targetPeerId, senderPeerId) ==
    [json |-> json, type |-> type, roomId |-> roomId, targetPeerId |-> targetPeerId,
     senderPeerId |-> senderPeerId]

NoData == Data("none", "", Null, Null, Null)

Inbound ==
    {Data("invalid", "", Null, Null, Null), Data("null", "", Null, Null, Null)}
    \cup {Data("object", "join-room", r, Null, Null) : r \in RoomIds \cup {Null}}
    \cup {Data("object", t, Null, x, ClaimedSender(t)) :
              t \in RelayTypes, x \in PeerIds \cup {Null}}
    \cup {Data("object", "leave-room", Null, Null, Null)}

\* ws.send: the frame goes out on an open connection.
Send(rdy, m) == IF rdy[m.to] = "OPEN" THEN <<m>> ELSE <<>>

\* for (const [id, client] of clients) if (id !== skip && client.readyState === OPEN) client.send(m)
Notify(clients, rdy, skip, m) ==
    LET targets == SelectSeq(clients, LAMBDA q : q # skip /\ rdy[q] = "OPEN")
    IN  [i \in 1..Len(targets) |-> [m EXCEPT !.to = targets[i]]]

\* The outcome of a handler.
Result(rs, cur, o, threw) ==
    [rooms |-> rs, currentRoomId |-> cur, out |-> o, threw |-> threw]

----------------------------------------------------------------------------
\* Faulty variant: the guard of line 154 never passes.
HasValidRoom_Never(rs, cur, p) == FALSE

\* function leaveRoom(ws), line 154: the peer has a room and the table has it
HasValidRoom(rs, cur, p) == cur[p] # Null /\ rs[cur[p]].has

\* Faulty variant: the room is deleted whenever a member leaves.
RoomIsEmpty_Always(roomClients) == TRUE

\* Faulty variant: the empty room is never deleted.
RoomIsEmpty_Never(roomClients) == FALSE

\* line 159: roomClients.size === 0
RoomIsEmpty(roomClients) == Len(roomClients) = 0

\* lines 164-174: peer-left to every remaining member that is open
PeerLeftNotices(roomClients, rdy, r, p) ==
    Notify(roomClients, rdy, Null, Msg(Null, "peer-left", r, p, <<>>, "has disconnected"))

\* Faulty variant: the peer's currentRoomId is not cleared.
leaveRoom_KeepsRoomId(rs, cur, rdy, p) ==
    IF cur[p] # Null /\ rs[cur[p]].has
    THEN LET r == cur[p]
             roomClients == MapDelete(rs[r].clients, p)
         IN  [rooms |-> IF Len(roomClients) = 0
                        THEN [rs EXCEPT ![r] = NoRoom]
                        ELSE [rs EXCEPT ![r].clients = roomClients],
              currentRoomId |-> cur,
              out |-> IF Len(roomClients) = 0
                      THEN <<>>
                      ELSE Notify(roomClients, rdy, Null,
                                  Msg(Null, "peer-left", r, p, <<>>, "has disconnected")),
              threw |-> FALSE]
    ELSE [rooms |-> rs, currentRoomId |-> cur, out |-> <<>>, threw |-> FALSE]

\* function leaveRoom(ws)
leaveRoom(rs, cur, rdy, p) ==
    IF HasValidRoom(rs, cur, p)
    THEN LET r == cur[p]
             roomClients == MapDelete(rs[r].clients, p)
         IN  Result(
                 IF RoomIsEmpty(roomClients)
                 THEN [rs EXCEPT ![r] = NoRoom]
                 ELSE [rs EXCEPT ![r].clients = roomClients],
                 [cur EXCEPT ![p] = Null],
                 IF RoomIsEmpty(roomClients)
                 THEN <<>>
                 ELSE PeerLeftNotices(roomClients, rdy, r, p),
                 FALSE)
    ELSE Result(rs, cur, <<>>, FALSE)

\* Faulty variant: a join leaves whatever room the peer is in, the same one included.
InDifferentRoom_AnyRoom(cur, p, roomIdToJoin) == cur[p] # Null

\* Faulty variant: a join never leaves the previous room.
InDifferentRoom_Never(cur, p, roomIdToJoin) == FALSE

----------------------------------------------------------------------------
\* case 'join-room', line 57: the peer is in a different room
InDifferentRoom(cur, p, roomIdToJoin) == cur[p] # Null /\ cur[p] # roomIdToJoin

\* Faulty variant: the joiner is not told who is in the room.
ExistingPeers_None(roomClients, rdy, p, roomIdToJoin) == <<>>

\* Faulty variant: the snapshot is taken after the joiner's insertion.
ExistingPeers_AfterInsert(roomClients, rdy, p, roomIdToJoin) ==
    Send(rdy, Msg(p, "existing-peers", roomIdToJoin, Null, MapSet(roomClients, p), ""))

\* lines 71-79: the existing-peers message, sent when the room has members
ExistingPeers(roomClients, rdy, p, roomIdToJoin) ==
    IF Len(roomClients) > 0
    THEN Send(rdy, Msg(p, "existing-peers", roomIdToJoin, Null, roomClients, ""))
    ELSE <<>>

\* Faulty variant: the members are not told of the joiner.
NewPeerNotices_None(roomClients, rdy, p, roomIdToJoin) == <<>>

\* Faulty variant: the loop does not skip the joiner.
NewPeerNotices_ToAll(roomClients, rdy, p, roomIdToJoin) ==
    Notify(roomClients, rdy, Null, Msg(Null, "new-peer-joined", roomIdToJoin, p, <<>>, ""))

\* lines 85-94: new-peer-joined to every other member that is open
NewPeerNotices(roomClients, rdy, p, roomIdToJoin) ==
    Notify(roomClients, rdy, p, Msg(Null, "new-peer-joined", roomIdToJoin, p, <<>>, ""))

\* case 'join-room'
joinRoom(rs, cur, rdy, p, data) ==
    IF data.roomId = Null
    THEN Result(rs, cur, Send(rdy, ErrorMsg(p, "Room ID is required.")), FALSE)
    ELSE LET roomIdToJoin == data.roomId
             left == IF InDifferentRoom(cur, p, roomIdToJoin)
                     THEN leaveRoom(rs, cur, rdy, p)
                     ELSE Result(rs, cur, <<>>, FALSE)
             cur2 == [left.currentRoomId EXCEPT ![p] = roomIdToJoin]
             rs2 == IF ~left.rooms[roomIdToJoin].has
                    THEN [left.rooms EXCEPT ![roomIdToJoin] = [has |-> TRUE, clients |-> <<>>]]
                    ELSE left.rooms
             roomClients == rs2[roomIdToJoin].clients
             existing == ExistingPeers(roomClients, rdy, p, roomIdToJoin)
             roomClients2 == MapSet(roomClients, p)
             rs3 == [rs2 EXCEPT ![roomIdToJoin].clients = roomClients2]
             notices == NewPeerNotices(roomClients2, rdy, p, roomIdToJoin)
             joined == Send(rdy, Msg(p, "joined-room", roomIdToJoin, p, <<>>, ""))
         IN  Result(rs3, cur2, left.out \o existing \o notices \o joined, FALSE)

\* Faulty variant: the target is looked up among all connections, not in the room.
TargetAvailable_AnyRoom(clientsInRoom, rdy, targetPeerId) ==
    targetPeerId \in PeerIds /\ rdy[targetPeerId] = "OPEN"

----------------------------------------------------------------------------
\* line 114: targetClient && targetClient.readyState === WebSocket.OPEN
TargetAvailable(clientsInRoom, rdy, targetPeerId) ==
    Contains(clientsInRoom, targetPeerId) /\ rdy[targetPeerId] = "OPEN"

\* Faulty variant: the message is sent back on the sender's connection.
Forwarded_ToSender(p, data) == Msg(p, data.type, Null, p, <<>>, "")

\* Faulty variant: { senderPeerId: peerId, ...data }, the frame's own field wins.
Forwarded_FrameWins(p, data) ==
    Msg(data.targetPeerId, data.type, Null,
        IF data.senderPeerId # Null THEN data.senderPeerId ELSE p, <<>>, "")

\* lines 117-120: { ...data, senderPeerId: peerId }: the frame's fields, then
\* senderPeerId set to the connection's peerId over whatever the frame had
Forwarded(p, data) ==
    [Msg(data.targetPeerId, data.type, Null, data.senderPeerId, <<>>, "")
        EXCEPT !.peerId = p]

\* case 'offer', 'answer', 'ice-candidate'
relay(rs, cur, rdy, p, data) ==
    IF data.targetPeerId = Null
    THEN Result(rs, cur, Send(rdy, ErrorMsg(p, "Signaling message requires a targetPeerId.")), FALSE)
    ELSE IF HasValidRoom(rs, cur, p)
         THEN IF TargetAvailable(rs[cur[p]].clients, rdy, data.targetPeerId)
              THEN Result(rs, cur, Send(rdy, Forwarded(p, data)), FALSE)
              ELSE Result(rs, cur, Send(rdy, ErrorMsg(p, "Target peer not found or not available.")), FALSE)
         ELSE Result(rs, cur, Send(rdy, ErrorMsg(p, "You are not in a valid room to send signaling data.")), FALSE)

\* ws.on('message')
onMessage(rs, cur, rdy, p, data) ==
    IF data.json = "invalid"
    THEN \* JSON.parse throws, caught at line 40
         Result(rs, cur, Send(rdy, ErrorMsg(p, "Invalid JSON message.")), FALSE)
    ELSE IF data.json = "null"
    THEN \* JSON.parse returns null; data.type at line 46 throws a TypeError nothing catches
         Result(rs, cur, <<>>, TRUE)
    ELSE IF data.type = "join-room"
    THEN joinRoom(rs, cur, rdy, p, data)
    ELSE IF data.type \in RelayTypes
    THEN relay(rs, cur, rdy, p, data)
    ELSE Result(rs, cur, Send(rdy, ErrorMsg(p, "Unknown message type")), FALSE)

----------------------------------------------------------------------------
\* What the messages sent to connection m say of another peer j, while m is
\* open and stays in its room: nothing, or that j is in room roomId
\* (existing-peers listing j, lines 73-77, or new-peer-joined naming j, lines
\* 87-91).  A peer-left naming j (lines 166-171) takes it back, and so does
\* m leaving the room or m's connection ceasing to be open.
Untold == Null

ToldInRoom(r) == r

\* told after a handler that sent o and left the associations cur2 and the
\* ready states rdy2, the associations having been cur.
Tell(t, cur, cur2, rdy2, o) ==
    [m \in PeerIds |->
        IF rdy2[m] # "OPEN"
        THEN [j \in PeerIds |-> Untold]
        ELSE IF \A i \in 1..Len(o) : o[i].to # m
        THEN IF cur2[m] # cur[m] THEN [j \in PeerIds |-> Untold] ELSE t[m]
        ELSE [j \in PeerIds |->
                 LET joins == {i \in 1..Len(o) :
                                  /\ o[i].to = m
                                  /\ \/ o[i].type = "new-peer-joined" /\ o[i].peerId = j
                                     \/ o[i].type = "existing-peers" /\ Contains(o[i].peers, j)}
                     leaves == {i \in 1..Len(o) :
                                   o[i].to = m /\ o[i].type = "peer-left" /\ o[i].peerId = j}
                 IN  IF j = m
                     THEN Untold
                     ELSE IF joins # {} /\ \A l \in leaves : \E k \in joins : k > l
                     THEN ToldInRoom(o[CHOOSE k \in joins : \A i \in joins : i <= k].roomId)
                     ELSE IF leaves # {} \/ cur2[m] # cur[m]
                     THEN Untold
                     ELSE t[m][j]]]

\* No message has been sent to the connection yet.
NoneSent == <<>>

\* firstSent after a handler that sent o.
FirstSent(f, o) ==
    [p \in PeerIds |->
        LET toP == {i \in 1..Len(o) : o[i].to = p}
        IN  IF f[p] = NoneSent /\ toP # {}
            THEN LET i == CHOOSE k \in toP : \A l \in toP : k <= l
                 IN  <<o[i].type, o[i].peerId>>
            ELSE f[p]]

\* The event a handler handles: its kind, its connection, the frame of a
\* 'message' event, and the connection's currentRoomId when the event arrived.
Event(kind, p, data, prevRoomId) ==
    [kind |-> kind, peer |-> p, data |-> data, prevRoomId |-> prevRoomId]

NoEvent == Event("idle", Null, NoData, Null)

Init ==
    /\ rooms = [r \in RoomIds |-> NoRoom]
    /\ currentRoomId = [p \in PeerIds |-> Null]
    /\ readyState = [p \in PeerIds |-> "NONE"]
    /\ errored = {}
    /\ out = <<>>
    /\ last = NoEvent
    /\ crashed = FALSE
    /\ told = [m \in PeerIds |-> [j \in PeerIds |-> Untold]]
    /\ firstSent = [p \in PeerIds |-> NoneSent]

\* The event loop takes the next event when the previous handler has returned.
Idle == ~crashed /\ last = NoEvent

\* A handler's outcome becomes the next state (the handler runs once: done).
Apply(res) ==
    \E done \in {res} :
        /\ rooms' = done.rooms
        /\ currentRoomId' = done.currentRoomId
        /\ out' = done.out
        /\ crashed' = done.threw
        /\ told' = Tell(told, currentRoomId, currentRoomId', readyState', out')
        /\ firstSent' = FirstSent(firstSent, out')

\* Faulty variant: the connection handler sends nothing.
Greeting_None(rdy, p) == <<>>

\* line 34: ws.send({ type: 'your-peer-id', peerId })
Greeting(rdy, p) == Send(rdy, Msg(p, "your-peer-id", Null, p, <<>>, ""))

\* wss.on('connection')
OnConnection(p) ==
    /\ Idle
    /\ readyState[p] = "NONE"
    /\ \A q \in PeerIds : q < p => readyState[q] # "NONE"
    /\ readyState' = [readyState EXCEPT ![p] = "OPEN"]
    /\ currentRoomId' = [currentRoomId EXCEPT ![p] = Null]
    /\ out' = Greeting(readyState', p)
    /\ firstSent' = FirstSent(firstSent, out')
    /\ last' = Event("connection", p, NoData, Null)
    /\ UNCHANGED <<rooms, errored, crashed, told>>

\* ws.on('message'): a frame arrives on an open connection
OnMessage(p) ==
    /\ Idle
    /\ readyState[p] = "OPEN"
    /\ UNCHANGED <<readyState, errored>>
    /\ \E data \in Inbound :
           /\ Apply(onMessage(rooms, currentRoomId, readyState, p, data))
           /\ last' = Event("message", p, data, currentRoomId[p])

\* The transport starts closing (a close frame arrived, the socket ended):
\* ws.readyState leaves OPEN before any handler of the connection runs.
TransportClosing(p) ==
    /\ Idle
    /\ readyState[p] = "OPEN"
    /\ readyState' = [readyState EXCEPT ![p] = "CLOSING"]
    /\ told' = Tell(told, currentRoomId, currentRoomId, readyState', <<>>)
    /\ UNCHANGED <<rooms, currentRoomId, errored, out, last, crashed, firstSent>>

\* ws.on('error'): the connection is no longer open when the handler runs
OnError(p) ==
    /\ Idle
    /\ readyState[p] \in {"OPEN", "CLOSING"}
    /\ readyState' = [readyState EXCEPT ![p] = "CLOSING"]
    /\ errored' = errored \cup {p}
    /\ Apply(leaveRoom(rooms, currentRoomId, readyState', p))
    /\ last' = Event("error", p, NoData, currentRoomId[p])

\* ws.on('close'): the connection is closed when the handler runs
OnClose(p) ==
    /\ Idle
    /\ readyState[p] \in {"OPEN", "CLOSING"}
    /\ readyState' = [readyState EXCEPT ![p] = "CLOSED"]
    /\ Apply(leaveRoom(rooms, currentRoomId, readyState', p))
    /\ last' = Event("close", p, NoData, currentRoomId[p])
    /\ UNCHANGED errored

\* The handler returns: its frames are on the wire and the event loop is idle.
HandlerReturns ==
    /\ ~crashed
    /\ last # NoEvent
    /\ out' = <<>>
    /\ last' = NoEvent
    /\ UNCHANGED <<rooms, currentRoomId, readyState, errored, crashed, told, firstSent>>

Next ==
    \/ \E p \in PeerIds : OnConnection(p)
    \/ \E p \in PeerIds : OnMessage(p)
    \/ \E p \in PeerIds : TransportClosing(p)
    \/ \E p \in PeerIds : OnError(p)
    \/ \E p \in PeerIds : OnClose(p)
    \/ HandlerReturns

Spec == Init /\ [][Next]_vars

\* A connection that is lost (no longer open, its 'close' event not yet
\* emitted) has the event pending in the event loop.
ClosePending(p) == readyState[p] = "CLOSING" /\ OnClose(p)

\* The event loop is a queue: a running handler returns, and a pending
\* 'close' event is handled however many other events are handled around it.
Fairness ==
    /\ WF_vars(HandlerReturns)
    /\ \A p \in PeerIds : SF_vars(ClosePending(p))

FairSpec == Spec /\ Fairness

----------------------------------------------------------------------------
\* Vocabulary of the properties.

Members(rs, r) == {rs[r].clients[i] : i \in 1..Len(rs[r].clients)}

\* The positions of out-sequence o that hold a message of this type to this peer.
Sent(o, to, type) == {i \in 1..Len(o) : o[i].to = to /\ o[i].type = type}

\* The positions of o that hold a message of this type, to anyone.
SentAny(o, type) == {i \in 1..Len(o) : o[i].type = type}

\* The last event is a join-room frame that carries a roomId.
AcceptedJoin(e) ==
    /\ e.kind = "message"
    /\ e.data.json = "object"
    /\ e.data.type = "join-room"
    /\ e.data.roomId # Null

\* The last event is a relay frame (offer, answer or ice-candidate).
RelayFrame(e) ==
    /\ e.kind = "message"
    /\ e.data.json = "object"
    /\ e.data.type \in RelayTypes

\* In room table rs with associations cur and ready states rdy, target y is an
\* open member of the room sender x is in.
Routable(rs, cur, rdy, x, y) ==
    /\ y # Null
    /\ cur[x] # Null
    /\ y \in Members(rs, cur[x])
    /\ rdy[y] = "OPEN"

----------------------------------------------------------------------------
\* C1: a roomId is a key of the room table if and only if the room has at
\* least one member; no empty room is left in the table.
C1_RoomPresentIffNonEmpty ==
    \A r \in RoomIds : rooms[r].has <=> Len(rooms[r].clients) > 0

\* C1 witness: the last member of a room was lost by close and the entry is gone.
C1_Witness ==
    /\ last.kind = "close"
    /\ last.prevRoomId # Null
    /\ ~rooms[last.prevRoomId].has

\* C2: each peerId is a member of at most one room's member mapping.
C2_AtMostOneRoom ==
    \A p \in PeerIds :
        /\ Cardinality({r \in RoomIds : p \in Members(rooms, r)}) <= 1
        /\ \A r \in RoomIds :
               Cardinality({i \in 1..Len(rooms[r].clients) : rooms[r].clients[i] = p}) <= 1

\* C2 witness: a peer in room A has joined room B and is a member of B.
C2_Witness ==
    /\ AcceptedJoin(last)
    /\ last.prevRoomId # Null
    /\ last.prevRoomId # last.data.roomId
    /\ last.peer \in Members(rooms, last.data.roomId)

\* C3 (as claimed): the existing-peers list sent to a joiner never contains
\* the joiner's own peerId, whatever room the joiner was in.
C3_JoinerNotInExistingPeers ==
    AcceptedJoin(last) =>
        \A i \in SentAny(out, "existing-peers") : ~Contains(out[i].peers, last.peer)

\* C4 (as claimed): every accepted join-room sends the joiner exactly one
\* existing-peers message, also when the room was absent or empty, followed
\* by exactly one joined-room message.
C4_AlwaysExistingPeers ==
    AcceptedJoin(last) =>
        /\ Cardinality(Sent(out, last.peer, "existing-peers")) = 1
        /\ Cardinality(Sent(out, last.peer, "joined-room")) = 1
        /\ \A i \in Sent(out, last.peer, "existing-peers") :
           \A j \in Sent(out, last.peer, "joined-room") : i < j

\* C4 (amended): every accepted join-room sends the joiner exactly one
\* joined-room message echoing the roomId and the joiner's peerId, as the last
\* message of the handler; when the room had members before the insertion it
\* is preceded by exactly one existing-peers message listing exactly those
\* members, and when the room was absent no existing-peers message is sent.
C4_JoinReplies ==
    [][AcceptedJoin(last') =>
        LET j == last'.peer
            r == last'.data.roomId
            before == rooms[r].clients
        IN  /\ Len(out') >= 1
            /\ out'[Len(out')] = Msg(j, "joined-room", r, j, <<>>, "")
            /\ Sent(out', j, "joined-room") = {Len(out')}
            /\ SentAny(out', "joined-room") = {Len(out')}
            /\ SentAny(out', "existing-peers") = Sent(out', j, "existing-peers")
            /\ Cardinality(Sent(out', j, "existing-peers")) = (IF Len(before) > 0 THEN 1 ELSE 0)
            /\ \A i \in Sent(out', j, "existing-peers") :
                   /\ out'[i].roomId = r
                   /\ out'[i].peers = before
                   /\ i < Len(out')
    ]_vars

\* C4 witnesses: a join of an absent room (no existing-peers) and a join of a
\* room with a member (one existing-peers), each ended by joined-room.
C4_Witness ==
    /\ AcceptedJoin(last)
    /\ Sent(out, last.peer, "existing-peers") # {}
    /\ Sent(out, last.peer, "joined-room") # {}

C4_WitnessEmptyRoom ==
    /\ AcceptedJoin(last)
    /\ Sent(out, last.peer, "existing-peers") = {}
    /\ Sent(out, last.peer, "joined-room") # {}

\* C5: when J joins a room, every other member of the room that is open is
\* sent exactly one new-peer-joined naming J and the roomId; J is sent none,
\* and no peer outside the room is sent one.
C5_NewPeerJoinedToOthers ==
    AcceptedJoin(last) =>
        LET j == last.peer
            r == last.data.roomId
        IN  /\ \A q \in PeerIds :
                   Cardinality(Sent(out, q, "new-peer-joined")) =
                       (IF q # j /\ q \in Members(rooms, r) /\ readyState[q] = "OPEN"
                        THEN 1 ELSE 0)
            /\ \A i \in SentAny(out, "new-peer-joined") :
                   out[i].peerId = j /\ out[i].roomId = r /\ out[i].to \in PeerIds

\* C5 witness: a join notified an open member while another member, not
\* open, was skipped.
C5_Witness ==
    /\ AcceptedJoin(last)
    /\ SentAny(out, "new-peer-joined") # {}
    /\ \E q \in Members(rooms, last.data.roomId) : readyState[q] # "OPEN"

\* C6: a relay frame is delivered only to a target that, when the frame is
\* handled, is an open member of the sender's current room; in every other
\* case with a targetPeerId (sender without a room, target not a member,
\* target not open) the only message sent is one error to the sender.
C6_RelayOnlyToOpenRoommate ==
    [][RelayFrame(last') =>
        LET x == last'.peer
            y == last'.data.targetPeerId
            ok == Routable(rooms, currentRoomId, readyState, x, y)
        IN  /\ \A i \in 1..Len(out') :
                   out'[i].type \in RelayTypes => ok /\ out'[i].to = y
            /\ ~ok => /\ Len(out') = 1
                      /\ out'[1].to = x
                      /\ out'[1].type = "error"
    ]_vars

\* C6 witness: a relay named a member of the sender's room that is not open,
\* and the sender got the error.
C6_Witness ==
    /\ RelayFrame(last)
    /\ last.data.targetPeerId # Null
    /\ currentRoomId[last.peer] # Null
    /\ last.data.targetPeerId \in Members(rooms, currentRoomId[last.peer])
    /\ readyState[last.data.targetPeerId] # "OPEN"
    /\ Sent(out, last.peer, "error") = {1}

\* C7: when sender X and target Y are members of the same room and Y is
\* open, a relay frame from X naming Y sends exactly one message: to Y, of the
\* frame's type, carrying X as sender; nothing goes to any other peer (nor to
\* X when X is not Y), and the room table and every currentRoomId are unchanged.
C7_RelayDeliveredOnce ==
    [][(RelayFrame(last') /\ Routable(rooms, currentRoomId, readyState,
                                      last'.peer, last'.data.targetPeerId)) =>
        LET x == last'.peer
            y == last'.data.targetPeerId
        IN  /\ Len(out') = 1
            /\ out'[1].to = y
            /\ out'[1].type = last'.data.type
            /\ out'[1].peerId = x
            /\ x # y => \A i \in 1..Len(out') : out'[i].to # x
            /\ rooms' = rooms
            /\ currentRoomId' = currentRoomId
    ]_vars

\* C7 witness: an answer was forwarded between two distinct members.
C7_Witness ==
    /\ RelayFrame(last)
    /\ last.data.type = "answer"
    /\ last.data.targetPeerId # last.peer
    /\ Sent(out, last.data.targetPeerId, "answer") = {1}

C9_ConnectionLost ==
    [][last'.kind \in {"close", "error"} =>
        LET y == last'.peer
            r == currentRoomId[y]
        IN  /\ y \in errored => r = Null
            /\ r # Null =>
                   /\ \A q \in PeerIds :
                          Cardinality(Sent(out', q, "peer-left")) =
                              (IF q \in Members(rooms, r) \ {y} /\ readyState'[q] = "OPEN"
                               THEN 1 ELSE 0)
                   /\ \A i \in 1..Len(out') :
                          /\ out'[i].type = "peer-left"
                          /\ out'[i].peerId = y
                          /\ out'[i].roomId = r
                   /\ currentRoomId'[y] = Null
                   /\ Members(rooms', r) = Members(rooms, r) \ {y}
            /\ r = Null =>
                   /\ out' = <<>>
                   /\ rooms' = rooms
                   /\ currentRoomId' = currentRoomId
    ]_vars

\* C9 witness: an error event of a member sent peer-left to an open member
\* while a member that is not open was skipped.
C9_Witness ==
    /\ last.kind = "error"
    /\ last.prevRoomId # Null
    /\ SentAny(out, "peer-left") # {}
    /\ \E q \in Members(rooms, last.prevRoomId) : readyState[q] # "OPEN"

\* The close event that follows the error event of a former member: the
\* second cleanup run, which sent nothing.
C9_WitnessCloseAfterError ==
    /\ last.kind = "close"
    /\ last.peer \in errored
    /\ \E r \in RoomIds : rooms[r].has
    /\ out = <<>>

\* The frame is one the handler rejects: it does not parse to a record, it is
\* a join-room without roomId, a relay that cannot be routed, or of no known type.
Rejected(rs, cur, rdy, e) ==
    /\ e.kind = "message"
    /\ \/ e.data.json # "object"
       \/ e.data.type = "join-room" /\ e.data.roomId = Null
       \/ /\ e.data.type \in RelayTypes
          /\ ~Routable(rs, cur, rdy, e.peer, e.data.targetPeerId)
       \/ e.data.type \notin RelayTypes \cup {"join-room"}

\* C10 (as claimed): every rejected inbound message sends exactly one error
\* message to the sender and none to any other peer, and leaves the room
\* table and every currentRoomId unchanged.
C10_RejectedGetsOneError ==
    [][Rejected(rooms, currentRoomId, readyState, last') =>
        /\ Len(out') = 1
        /\ out'[1].to = last'.peer
        /\ out'[1].type = "error"
        /\ rooms' = rooms
        /\ currentRoomId' = currentRoomId
    ]_vars

\* What holds of the code: C10's statement for every rejected frame but the
\* JSON text null, on which the handler throws before it replies.
C10_RejectedExceptNull ==
    [][(Rejected(rooms, currentRoomId, readyState, last') /\ last'.data.json # "null") =>
        /\ Len(out') = 1
        /\ out'[1].to = last'.peer
        /\ out'[1].type = "error"
        /\ rooms' = rooms
        /\ currentRoomId' = currentRoomId
        /\ ~crashed'
    ]_vars

\* The positions of o that hold a relay message.
Relayed(o) == {i \in 1..Len(o) : o[i].type \in RelayTypes}

\* C11: a relay message with sender J is sent to another peer M only after M
\* has been told that J is in the room they share (by new-peer-joined naming
\* J or by an existing-peers list containing J, for that room, with no
\* peer-left naming J since); and new-peer-joined naming J goes out only when
\* J is in the room's member mapping.
C11_RelayAfterIntroduction ==
    /\ \A i \in Relayed(out) :
           out[i].to # out[i].peerId =>
               told[out[i].to][out[i].peerId] = ToldInRoom(currentRoomId[out[i].peerId])
    /\ \A i \in SentAny(out, "new-peer-joined") :
           out[i].peerId \in Members(rooms, out[i].roomId)

\* C11 witness: a relay reached a member that had been told of the sender by
\* new-peer-joined (the sender joined after it).
C11_Witness ==
    /\ RelayFrame(last)
    /\ \E i \in Relayed(out) :
           /\ out[i].to # out[i].peerId
           /\ \E k \in 1..Len(rooms[currentRoomId[out[i].to]].clients) :
              \E l \in 1..Len(rooms[currentRoomId[out[i].to]].clients) :
                  /\ rooms[currentRoomId[out[i].to]].clients[k] = out[i].to
                  /\ rooms[currentRoomId[out[i].to]].clients[l] = out[i].peerId
                  /\ k < l

\* The ways the only member x of a room can depart: its close or error
\* event, or (when it is open) its join-room for another room.  Each is the
\* outcome of the handler run on table rs with associations cur.
Departures(rs, cur, rdy, x, r) ==
    {leaveRoom(rs, cur, rdy, x)}
    \cup {onMessage(rs, cur, rdy, x, Data("object", "join-room", r2, Null, Null)) :
             r2 \in {r3 \in RoomIds : r3 # r /\ rdy[x] = "OPEN"}}

\* C12: handlers of different connections that touch the same room leave the
\* table consistent in either order: when x is the only member of room r and
\* y sends join-room for r, then whether x's departure or y's join is handled
\* first, after both the room exists and its member mapping is exactly y.
C12_DepartureAndJoinEitherOrder ==
    Idle => \A r \in RoomIds : \A x \in PeerIds : \A y \in PeerIds \ {x} :
        (/\ rooms[r].clients = <<x>>
         /\ readyState[x] \in {"OPEN", "CLOSING"}
         /\ readyState[y] = "OPEN") =>
            LET join == Data("object", "join-room", r, Null, Null)
                joinFirst == onMessage(rooms, currentRoomId, readyState, y, join)
            IN  /\ \A d \in Departures(rooms, currentRoomId, readyState, x, r) :
                       LET after == onMessage(d.rooms, d.currentRoomId, readyState, y, join)
                       IN  /\ after.rooms[r] = [has |-> TRUE, clients |-> <<y>>]
                           /\ after.currentRoomId[y] = r
                /\ \A d \in Departures(joinFirst.rooms, joinFirst.currentRoomId,
                                       readyState, x, r) :
                       /\ d.rooms[r] = [has |-> TRUE, clients |-> <<y>>]
                       /\ d.currentRoomId[y] = r

\* C12 witness: the departure of a room's earlier member was handled after
\* another peer's join, and the room is in the table with that peer alone.
C12_Witness ==
    /\ last.kind \in {"close", "error"}
    /\ last.prevRoomId # Null
    /\ rooms[last.prevRoomId].has
    /\ Len(rooms[last.prevRoomId].clients) = 1
    /\ readyState[rooms[last.prevRoomId].clients[1]] = "OPEN"

\* C13: every relay message delivered carries as sender the peerId the server
\* assigned to the connection the frame came from, whatever senderPeerId the
\* frame itself carries.
C13_SenderIsTheConnection ==
    \A i \in Relayed(out) :
        /\ last.kind = "message"
        /\ out[i].peerId = last.peer

\* C13 witness: a frame that names another peer as its sender was relayed.
C13_Witness ==
    /\ RelayFrame(last)
    /\ last.data.senderPeerId \notin {Null, last.peer}
    /\ Relayed(out) # {}

\* The connection's close or error event has been handled.
Gone(p) == p \in errored \/ readyState[p] = "CLOSED"

\* C14: once a peer's close or error event has been handled, the peer has no
\* currentRoomId and is a member of no room, and in every later state no
\* existing-peers message lists it and no relay message is delivered to it or
\* with it as sender.
C14_GoneIsTerminal ==
    \A p \in PeerIds :
        Gone(p) =>
            /\ currentRoomId[p] = Null
            /\ \A r \in RoomIds : p \notin Members(rooms, r)
            /\ \A i \in SentAny(out, "existing-peers") : ~Contains(out[i].peers, p)
            /\ \A i \in Relayed(out) : out[i].to # p /\ out[i].peerId # p

\* C14 witness: a peer is gone, and a later relay frame of a room member
\* names it as target and is answered with an error.
C14_Witness ==
    /\ RelayFrame(last)
    /\ last.prevRoomId # Null
    /\ last.data.targetPeerId # Null
    /\ Gone(last.data.targetPeerId)
    /\ Sent(out, last.peer, "error") # {}

\* C15: the first message the server sends to a connection is your-peer-id
\* carrying the connection's peerId; no other message goes to a connection
\* before it, whatever events of other peers are handled in between.
C15_GreetingFirst ==
    \A p \in PeerIds :
        firstSent[p] # NoneSent => firstSent[p] = <<"your-peer-id", p>>

\* C15 witness: a handler of another peer's join sends new-peer-joined to a
\* connection whose first message was its your-peer-id.
C15_Witness ==
    \E i \in SentAny(out, "new-peer-joined") :
        /\ out[i].to # last.peer
        /\ firstSent[out[i].to] = <<"your-peer-id", out[i].to>>

\* C16: an event of peer P (a frame it sends, its close, its error) changes
\* neither the currentRoomId of any other peer Q nor Q's membership of any
\* room; so a peer stays a member of its room through every sequence of
\* other peers' events.
C16_OnlyOwnEventsMove ==
    [][\A q \in PeerIds :
           last'.peer # q =>
               /\ currentRoomId'[q] = currentRoomId[q]
               /\ \A r \in RoomIds :
                      Contains(rooms'[r].clients, q) <=> Contains(rooms[r].clients, q)]_vars

\* C16 witness: a peer has left a room (by switching, close or error) in
\* which another peer is, and that peer is still a member.
C16_Witness ==
    /\ last.kind \in {"message", "close", "error"}
    /\ last.prevRoomId # Null
    /\ currentRoomId[last.peer] # last.prevRoomId
    /\ \E q \in PeerIds \ {last.peer} :
           /\ currentRoomId[q] = last.prevRoomId
           /\ q \in Members(rooms, last.prevRoomId)

\* C17: between handlers the per-peer association and the room table agree:
\* peer p is a key of room r's member mapping if and only if p's
\* currentRoomId is r, and a peer without a currentRoomId is in no room.
C17_AssociationMatchesTable ==
    \A p \in PeerIds :
        /\ \A r \in RoomIds : Contains(rooms[r].clients, p) <=> currentRoomId[p] = r
        /\ currentRoomId[p] = Null => \A r \in RoomIds : ~Contains(rooms[r].clients, p)

\* C17 witness: a peer has moved from one room to another while a third
\* connection has no room.
C17_Witness ==
    /\ AcceptedJoin(last)
    /\ last.prevRoomId \notin {Null, last.data.roomId}
    /\ last.peer \in Members(rooms, last.data.roomId)
    /\ \E q \in PeerIds : readyState[q] = "OPEN" /\ currentRoomId[q] = Null

\* C18: once member M has been sent peer-left naming J, no relay message with
\* sender J is sent to M until M is told of J again by a later new-peer-joined
\* naming J or a later existing-peers list containing J: peer-left leaves M
\* untold of J, and a relay from J reaches M only while M is told of J.
C18_NoRelayAfterPeerLeft ==
    /\ \A i \in SentAny(out, "peer-left") :
           /\ told[out[i].to][out[i].peerId] = Untold
           /\ \A k \in Relayed(out) :
                  ~(out[k].to = out[i].to /\ out[k].peerId = out[i].peerId)
    /\ \A k \in Relayed(out) :
           out[k].to # out[k].peerId => told[out[k].to][out[k].peerId] # Untold

\* C18 witness: a peer that stays connected has left a room by joining
\* another, and a member of the room it left was sent peer-left naming it.
C18_Witness ==
    /\ AcceptedJoin(last)
    /\ readyState[last.peer] = "OPEN"
    /\ \E i \in SentAny(out, "peer-left") :
           /\ out[i].peerId = last.peer
           /\ out[i].roomId = last.prevRoomId
           /\ currentRoomId[out[i].to] = last.prevRoomId

\* C19: a join-room that names the room the peer is already in runs no leave:
\* no peer-left is sent, and the room table and every peer's currentRoomId
\* are after the handler what they were before it.
C19_RejoinKeepsState ==
    [][(/\ AcceptedJoin(last')
        /\ last' # last
        /\ currentRoomId[last'.peer] = last'.data.roomId) =>
           /\ SentAny(out', "peer-left") = {}
           /\ rooms' = rooms
           /\ currentRoomId' = currentRoomId]_vars

\* C19 witness: a peer sent join-room for the room it was in, which has
\* another open member.
C19_Witness ==
    /\ AcceptedJoin(last)
    /\ last.prevRoomId = last.data.roomId
    /\ \E q \in Members(rooms, last.data.roomId) \ {last.peer} : readyState[q] = "OPEN"

\* No connection is open.
AllDisconnected == \A p \in PeerIds : readyState[p] # "OPEN"

\* The room table has no entry and no member.
TableEmpty == \A r \in RoomIds : rooms[r] = NoRoom

\* C20: when connection losses are handled fairly, if from some point on no
\* connection is open (every connected peer has disconnected and no new peer
\* connects), then from some point on the room table is empty.
C20_EventuallyEmpty == <>[]AllDisconnected => <>[]TableEmpty

\* C20 witness: the close of the last member of a room has been handled when
\* every peer has connected and disconnected, and the table is empty.
C20_Witness ==
    /\ last.kind = "close"
    /\ last.prevRoomId # Null
    /\ \A p \in PeerIds : readyState[p] = "CLOSED"
    /\ TableEmpty

====
